---------------------------- MODULE Spec2Model ----------------------------
(***************************************************************************)
(* Model of the LitCovid BioC-XML -> Neo4j pipeline                        *)
(* (Transform_data_xml_neo4j.py), of the store it writes, and of the       *)
(* export of that store to two text files (Exporter_doc.py).               *)
(*                                                                         *)
(* Texts.  A Python string is a sequence of symbols; a symbol is a TLA+    *)
(* string standing for one character or for an indivisible run of          *)
(* characters that holds neither whitespace nor '/'.  The whitespace       *)
(* symbols are " " and "\n".  Python's None is the one-symbol sequence     *)
(* None, whose symbol occurs in no text of the model.  ElementTree reports *)
(* an empty element text as None, never as '', so no input text is <<>>.   *)
(***************************************************************************)
EXTENDS Integers, Sequences, FiniteSets, TLC

VARIABLES
    stream,        \* the events ET.iterparse delivers for xml_file, in order
    pos,           \* number of events the parse loop has consumed
    current_doc,   \* parse_litcovid_xml: <<>> for None, <<dict>> otherwise
    documents,     \* parse_litcovid_xml: the list of records built so far
    origin,        \* history: for each record, which document element (by order of its end) gave it
    pc,            \* position of main(): parse, constraints, nodes, edges, done, aborted
    i,             \* load_to_neo4j: loop index of the running batch loop
    refs_data,     \* load_to_neo4j: the list built before the edge pass
    nodes,         \* store: sequence of :Document nodes (index = node identity)
    edges,         \* store: sequence of :REFERENCES relationships (node index pairs)
    constraint,    \* store: whether the uniqueness constraint on pmid exists
    initial,       \* history: the store as main() found it
    calls,         \* history: per run of main(), the store calls it has issued, in order
    aborts,        \* number of runs that ended with an exception so far
    file1,         \* Exporter_doc.py: the content of resultat_Neo4j_3_1.txt
    file2          \* Exporter_doc.py: the content of resultat_Neo4j_3_2.txt

vars == <<stream, pos, current_doc, documents, origin, pc, i, refs_data, nodes, edges,
          constraint, initial, calls, aborts, file1, file2>>

parseVars == <<stream, pos, current_doc, documents, origin>>
loadVars == <<i, refs_data, nodes, edges, constraint, initial, calls, aborts>>
exportVars == <<file1, file2>>

(***************************************************************************)
(* Bounds of the model.                                                    *)
(***************************************************************************)
\* SpecParse: document elements and passages of one generated stream
MaxStreamDocs == 3
MaxStreamPassages == 2
\* Spec: document elements of one corpus, and failed runs before the run that completes
MaxDocs == 3
MaxAborts == 1
\* load_to_neo4j's batch_size (1000 in the source), scaled down so that batches split
batch_size == 2
\* SpecExport: nodes and relationships of one generated store
MaxExportNodes == 3
MaxExportEdges == 2

(***************************************************************************)
(* Python values.                                                          *)
(***************************************************************************)
None == <<"None">>

Truthy(x) == x # None /\ x # <<>>

Whitespace == {" ", "\n"}

RECURSIVE LStrip(_)
LStrip(s) ==
    IF s # <<>> /\ Head(s) \in Whitespace THEN LStrip(Tail(s)) ELSE s

RECURSIVE RStrip(_)
RStrip(s) ==
    IF s # <<>> /\ s[Len(s)] \in Whitespace THEN RStrip(SubSeq(s, 1, Len(s) - 1)) ELSE s

\* str.strip()
Strip(s) == RStrip(LStrip(s))

\* sep.join(parts)
RECURSIVE Join(_, _)
Join(parts, sep) ==
    IF parts = <<>> THEN <<>>
    ELSE IF Len(parts) = 1 THEN parts[1]
    ELSE parts[1] \o sep \o Join(Tail(parts), sep)

(***************************************************************************)
(* Elements and events.  A passage element is                              *)
(*   [infons |-> sequence of <<key, text>>, text |-> <<>> or <<t>>]        *)
(* where text is what elem.find('text') gives: <<>> when the passage has   *)
(* no <text> child, <<t>> with t the child's .text (None when empty).      *)
(***************************************************************************)
Passage(infons, text) == [infons |-> infons, text |-> text]

NoElem == Passage(<<>>, <<>>)

Event(event, tag, elem) == [event |-> event, tag |-> tag, elem |-> elem]

StartCollection == Event("start", "collection", NoElem)
EndCollection == Event("end", "collection", NoElem)
StartDoc == Event("start", "document", NoElem)
EndDoc == Event("end", "document", NoElem)
StartPassage == Event("start", "passage", NoElem)
EndPassageOf(p) == Event("end", "passage", p)

\* {inf.get('key'): inf.text for inf in elem.findall('infon')}: a later infon
\* with the same key replaces the earlier one
RECURSIVE InfonsDict(_)
InfonsDict(infons) ==
    IF infons = <<>> THEN <<>>
    ELSE LET front == SubSeq(infons, 1, Len(infons) - 1)
             last == infons[Len(infons)]
             rest == InfonsDict(front)
             kept == SelectSeq(rest, LAMBDA kv : kv[1] # last[1])
         IN Append(kept, last)

\* key in infons
HasKey(d, key) == \E k \in 1..Len(d) : d[k][1] = key

\* infons.get(key)
Get(d, key) ==
    IF HasKey(d, key) THEN d[CHOOSE k \in 1..Len(d) : d[k][1] = key][2] ELSE None


(***************************************************************************)
(* parse_litcovid_xml: the pieces of the loop body.                        *)
(***************************************************************************)
\* variant: only pmid is reset; title and references stay those of the last record
NewDocKeeps ==
    [pmid |-> None,
     title |-> IF documents = <<>> THEN <<>> ELSE documents[Len(documents)].title,
     abstract_parts |-> <<>>,
     references |-> IF documents = <<>> THEN <<>> ELSE documents[Len(documents)].references]

\* the dict a 'start document' event installs
NewDoc == [pmid |-> None, title |-> <<>>, abstract_parts |-> <<>>, references |-> <<>>]

\* variant: keeps the first identifier of a document
ExtractPmidFirst(doc, infons) ==
    IF HasKey(infons, "article-id_pmid") /\ doc.pmid = None
    THEN [doc EXCEPT !.pmid = Get(infons, "article-id_pmid")]
    ELSE doc

\* "# Extraire PMID"
ExtractPmid(doc, infons) ==
    IF HasKey(infons, "article-id_pmid")
    THEN [doc EXCEPT !.pmid = Get(infons, "article-id_pmid")]
    ELSE doc

\* text_elem is not None and text_elem.text
HasText(elem) == elem.text # <<>> /\ Truthy(elem.text[1])

\* variant: a TITLE passage without text clears the title
ExtractTitleAlways(doc, elem) ==
    [doc EXCEPT !.title = IF HasText(elem) THEN Strip(elem.text[1]) ELSE <<>>]

\* "# Extraire titre": the body of the TITLE branch
ExtractTitle(doc, elem) ==
    IF HasText(elem) THEN [doc EXCEPT !.title = Strip(elem.text[1])] ELSE doc

\* variant: the text is appended untrimmed
ExtractAbstractRaw(doc, elem) ==
    IF HasText(elem)
    THEN [doc EXCEPT !.abstract_parts = Append(@, elem.text[1])]
    ELSE doc

\* "# Extraire abstract": the body of the ABSTRACT branch
ExtractAbstract(doc, elem) ==
    IF HasText(elem)
    THEN [doc EXCEPT !.abstract_parts = Append(@, Strip(elem.text[1]))]
    ELSE doc

\* variant: an identifier already listed is not listed again
ExtractRefOnce(doc, infons) ==
    IF Truthy(Get(infons, "pub-id_pmid"))
       /\ \A k \in 1..Len(doc.references) : doc.references[k] # Get(infons, "pub-id_pmid")
    THEN [doc EXCEPT !.references = Append(@, Get(infons, "pub-id_pmid"))]
    ELSE doc

\* "# Extraire references": the body of the REF branch
ExtractRef(doc, infons) ==
    IF Truthy(Get(infons, "pub-id_pmid"))
    THEN [doc EXCEPT !.references = Append(@, Get(infons, "pub-id_pmid"))]
    ELSE doc

\* the if / elif / elif chain on section_type
ExtractSection(doc, infons, elem) ==
    IF Get(infons, "section_type") = <<"TITLE">>
    THEN ExtractTitle(doc, elem)
    ELSE IF Get(infons, "section_type") = <<"ABSTRACT">>
            /\ Get(infons, "type") = <<"abstract">>
    THEN ExtractAbstract(doc, elem)
    ELSE IF Get(infons, "section_type") = <<"REF">>
    THEN ExtractRef(doc, infons)
    ELSE doc

\* the body of the 'end passage' branch
HandlePassage(doc, elem) ==
    LET infons == InfonsDict(elem.infons)
    IN ExtractSection(ExtractPmid(doc, infons), infons, elem)

\* variant: the identifier is not tested
ShouldEmitAlways(cur) == cur # <<>>

\* if current_doc and current_doc['pmid']
ShouldEmit(cur) == cur # <<>> /\ Truthy(cur[1].pmid)

\* the dict appended to documents
Record(doc) ==
    [pmid |-> doc.pmid,
     title |-> doc.title,
     abstract |-> Join(doc.abstract_parts, <<" ">>),
     references |-> doc.references]

(***************************************************************************)
(* The input.  When the loop has consumed every event known so far, the    *)
(* next event is any event that keeps the file a BioC collection: a root   *)
(* collection element holding document elements and passages, a document   *)
(* element holding passages, every passage opened and closed (the events   *)
(* of a passage's infon and text children match no branch of the loop,     *)
(* exactly like 'start passage', and are left out).                        *)
(***************************************************************************)
Infon(key, value) == <<key, value>>

ParsePassages ==
    { Passage(<<Infon("article-id_pmid", <<"1">>), Infon("section_type", <<"TITLE">>)>>,
              << <<" ", "a", " ">> >>),
      Passage(<<Infon("article-id_pmid", <<"2">>), Infon("section_type", <<"TITLE">>)>>,
              << <<"b">> >>),
      Passage(<<Infon("article-id_pmid", None)>>, <<>>),
      Passage(<<Infon("section_type", <<"TITLE">>)>>, << None >>),
      Passage(<<Infon("article-id_pmid", <<"1">>), Infon("section_type", <<"ABSTRACT">>),
                Infon("type", <<"abstract">>)>>,
              << <<"a", " ", "b", " ">> >>),
      Passage(<<Infon("section_type", <<"ABSTRACT">>), Infon("type", <<"abstract">>)>>,
              << <<" ">> >>),
      Passage(<<Infon("section_type", <<"ABSTRACT">>), Infon("type", <<"abstract">>)>>,
              <<>>),
      Passage(<<Infon("section_type", <<"ABSTRACT">>), Infon("type", <<"abstract">>),
                Infon("type", <<"title_1">>)>>,
              << <<"b">> >>),
      Passage(<<Infon("article-id_pmid", <<"3">>), Infon("section_type", <<"REF">>),
                Infon("pub-id_pmid", <<"2">>)>>,
              << <<"a">> >>),
      Passage(<<Infon("section_type", <<"REF">>), Infon("pub-id_pmid", <<"3">>)>>, <<>>),
      Passage(<<Infon("section_type", <<"REF">>), Infon("pub-id_pmid", None)>>,
              << <<"a">> >>) }

CountEvents(s, event, tag) ==
    Cardinality({k \in 1..Len(s) : s[k].event = event /\ s[k].tag = tag})

\* whether s ends inside a document element
InDocument(s) == CountEvents(s, "start", "document") > CountEvents(s, "end", "document")

Complete(s) == s # <<>> /\ s[Len(s)] = EndCollection

Allowed(s) ==
    IF s = <<>> THEN {StartCollection}
    ELSE IF Complete(s) THEN {}
    ELSE IF s[Len(s)] = StartPassage THEN {EndPassageOf(p) : p \in ParsePassages}
    ELSE (IF CountEvents(s, "start", "passage") < MaxStreamPassages
          THEN {StartPassage} ELSE {})
         \cup (IF InDocument(s) THEN {EndDoc} ELSE {EndCollection})
         \cup (IF ~InDocument(s) /\ CountEvents(s, "start", "document") < MaxStreamDocs
               THEN {StartDoc} ELSE {})

\* the events `for event, elem in context` may deliver next
Upcoming == IF pos < Len(stream) THEN {stream[pos + 1]} ELSE Allowed(stream)

Consume(ev) ==
    /\ stream' = (IF pos < Len(stream) THEN stream ELSE Append(stream, ev))
    /\ pos' = pos + 1

(***************************************************************************)
(* parse_litcovid_xml: one action per branch of the loop body.             *)
(***************************************************************************)
StartDocument ==
    /\ pc = "parse"
    /\ \E ev \in Upcoming :
        /\ ev.event = "start" /\ ev.tag = "document"
        /\ Consume(ev)
        /\ current_doc' = <<NewDoc>>
        /\ UNCHANGED <<documents, origin>>
    /\ UNCHANGED <<pc, loadVars, exportVars>>

EndDocument ==
    /\ pc = "parse"
    /\ \E ev \in Upcoming :
        /\ ev.event = "end" /\ ev.tag = "document"
        /\ Consume(ev)
        /\ documents' = (IF ShouldEmit(current_doc)
                         THEN Append(documents, Record(current_doc[1]))
                         ELSE documents)
        /\ origin' = (IF ShouldEmit(current_doc)
                      THEN Append(origin, CountEvents(SubSeq(stream', 1, pos'), "end", "document"))
                      ELSE origin)
        /\ current_doc' = <<>>
    /\ UNCHANGED <<pc, loadVars, exportVars>>

EndPassage ==
    /\ pc = "parse"
    /\ current_doc # <<>>
    /\ \E ev \in Upcoming :
        /\ ev.event = "end" /\ ev.tag = "passage"
        /\ Consume(ev)
        /\ current_doc' = <<HandlePassage(current_doc[1], ev.elem)>>
        /\ UNCHANGED <<documents, origin>>
    /\ UNCHANGED <<pc, loadVars, exportVars>>

\* an event that matches no branch
OtherEvent ==
    /\ pc = "parse"
    /\ \E ev \in Upcoming :
        /\ ~(ev.event = "start" /\ ev.tag = "document")
        /\ ~(ev.event = "end" /\ ev.tag = "document")
        /\ ~(ev.event = "end" /\ ev.tag = "passage" /\ current_doc # <<>>)
        /\ Consume(ev)
        /\ UNCHANGED <<current_doc, documents, origin>>
    /\ UNCHANGED <<pc, loadVars, exportVars>>

\* the loop ends with the input; main() goes on to load_to_neo4j
ParseReturn ==
    /\ pc = "parse"
    /\ pos = Len(stream)
    /\ Complete(stream)
    /\ pc' = "constraints"
    /\ UNCHANGED <<parseVars, loadVars, exportVars>>

(***************************************************************************)
(* The store.  A node is [pmid, title, abstract, full_text], a property it *)
(* does not have being None; its place in `nodes` is its identity.  A      *)
(* relationship is [src, dst], two node identities.  Every query runs in   *)
(* one transaction: it takes effect as a whole or, when it fails, not at   *)
(* all.                                                                    *)
(***************************************************************************)
Bare(pmid) == [pmid |-> pmid, title |-> None, abstract |-> None, full_text |-> None]

\* the nodes (d:Document {pmid: pmid})
Matches(ns, pmid) == {k \in 1..Len(ns) : ns[k].pmid = pmid}

\* variant: CREATE in place of MERGE
MergeNodeCreates(ns, pmid) == Append(ns, Bare(pmid))

\* MERGE (d:Document {pmid: pmid})
MergeNode(ns, pmid) == IF Matches(ns, pmid) # {} THEN ns ELSE Append(ns, Bare(pmid))

\* variant: full_text is title + abstract, with no space between
SetDocumentNoSpace(ns, doc) ==
    [k \in 1..Len(ns) |->
        IF ns[k].pmid = doc.pmid
        THEN [pmid |-> ns[k].pmid,
              title |-> doc.title,
              abstract |-> doc.abstract,
              full_text |-> doc.title \o doc.abstract]
        ELSE ns[k]]

\* SET d.title = doc.title, d.abstract = doc.abstract,
\*     d.full_text = doc.title + ' ' + doc.abstract
SetDocument(ns, doc) ==
    [k \in 1..Len(ns) |->
        IF ns[k].pmid = doc.pmid
        THEN [pmid |-> ns[k].pmid,
              title |-> doc.title,
              abstract |-> doc.abstract,
              full_text |-> doc.title \o <<" ">> \o doc.abstract]
        ELSE ns[k]]

\* variant: ON CREATE SET in place of SET
RECURSIVE batch_load_documents_on_create(_, _)
batch_load_documents_on_create(ns, docs) ==
    IF docs = <<>> THEN ns
    ELSE batch_load_documents_on_create(
            IF Matches(ns, Head(docs).pmid) # {}
            THEN ns
            ELSE SetDocument(MergeNode(ns, Head(docs).pmid), Head(docs)),
            Tail(docs))

\* Neo4jLoader.batch_load_documents: UNWIND $docs AS doc MERGE ... SET ...
RECURSIVE batch_load_documents(_, _)
batch_load_documents(ns, docs) ==
    IF docs = <<>> THEN ns
    ELSE batch_load_documents(SetDocument(MergeNode(ns, Head(docs).pmid), Head(docs)),
                              Tail(docs))

\* variant: CREATE in place of MERGE
MergeEdgeCreates(es, d, r) == Append(es, [src |-> d, dst |-> r])

\* MERGE (d)-[:REFERENCES]->(r)
MergeEdge(es, d, r) ==
    IF \E k \in 1..Len(es) : es[k] = [src |-> d, dst |-> r]
    THEN es
    ELSE Append(es, [src |-> d, dst |-> r])

\* MERGE (d)-[:REFERENCES]->(r) for every row (d, r), rows in ascending order
RECURSIVE MergeEdges(_, _)
MergeEdges(es, rows) ==
    IF rows = {} THEN es
    ELSE LET row == CHOOSE x \in rows :
                        \A y \in rows : x[1] < y[1] \/ (x[1] = y[1] /\ x[2] <= y[2])
         IN MergeEdges(MergeEdge(es, row[1], row[2]), rows \ {row})

\* variant: MATCH (r:Document {pmid: ref_pmid}) in place of MERGE
RECURSIVE UpsertRefsMatchOnly(_, _, _)
UpsertRefsMatchOnly(store, ds, refs) ==
    IF refs = <<>> \/ ds = {} THEN store
    ELSE UpsertRefsMatchOnly(
            [nodes |-> store.nodes,
             edges |-> MergeEdges(store.edges, ds \X Matches(store.nodes, Head(refs)))],
            ds, Tail(refs))

\* variant: CREATE (r:Document {pmid: ref_pmid}) in place of MERGE
RECURSIVE UpsertRefsCreates(_, _, _)
UpsertRefsCreates(store, ds, refs) ==
    IF refs = <<>> \/ ds = {} THEN store
    ELSE LET ns == Append(store.nodes, Bare(Head(refs)))
         IN UpsertRefsCreates([nodes |-> ns,
                               edges |-> MergeEdges(store.edges, ds \X {Len(ns)})],
                              ds, Tail(refs))

\* UNWIND item.refs AS ref_pmid MERGE (r:Document {pmid: ref_pmid}) MERGE (d)-[:REFERENCES]->(r),
\* for the rows ds that MATCH (d:Document {pmid: item.pmid}) gave
RECURSIVE UpsertRefs(_, _, _)
UpsertRefs(store, ds, refs) ==
    IF refs = <<>> \/ ds = {} THEN store
    ELSE LET ns == MergeNode(store.nodes, Head(refs))
         IN UpsertRefs([nodes |-> ns,
                        edges |-> MergeEdges(store.edges, ds \X Matches(ns, Head(refs)))],
                       ds, Tail(refs))

\* the edge query of load_to_neo4j: UNWIND $data AS item MATCH (d ...) ...
RECURSIVE UpsertEdges(_, _)
UpsertEdges(store, data) ==
    IF data = <<>> THEN store
    ELSE UpsertEdges(UpsertRefs(store, Matches(store.nodes, Head(data).pmid), Head(data).refs),
                     Tail(data))

(***************************************************************************)
(* load_to_neo4j.                                                          *)
(***************************************************************************)
\* variant: the loop stops one batch early
InRangeShort(k, n) == k + batch_size < n

\* whether `for i in range(0, n, batch_size)` has an iteration at i = k
InRange(k, n) == k < n

\* variant: the slice stops one item early
SliceShort(seq, k) ==
    SubSeq(seq, k + 1, IF k + batch_size - 1 < Len(seq) THEN k + batch_size - 1 ELSE Len(seq))

\* seq[k:k+batch_size]
Slice(seq, k) ==
    SubSeq(seq, k + 1, IF k + batch_size < Len(seq) THEN k + batch_size ELSE Len(seq))

\* [{'pmid': doc['pmid'], 'refs': doc['references']} for doc in documents if doc['references']]
RefsData(docs) ==
    LET cited == SelectSeq(docs, LAMBDA doc : doc.references # <<>>)
    IN [k \in 1..Len(cited) |-> [pmid |-> cited[k].pmid, refs |-> cited[k].references]]

Call(op, ok, batch) == [op |-> op, ok |-> ok, batch |-> batch]

\* the calls of the running run
ThisRun == calls[Len(calls)]

Logged(call) == [calls EXCEPT ![Len(calls)] = Append(@, call)]

\* loader.create_constraints(): CREATE CONSTRAINT IF NOT EXISTS ...
CreateConstraints ==
    /\ pc = "constraints"
    /\ constraint' = TRUE
    /\ calls' = Logged(Call("constraint", TRUE, <<>>))
    /\ pc' = "nodes"
    /\ i' = 0
    /\ UNCHANGED <<parseVars, exportVars, refs_data, nodes, edges, initial, aborts>>

\* one iteration of the node loop: loader.batch_load_documents(batch, batch_size)
NodeBatch ==
    /\ pc = "nodes"
    /\ InRange(i, Len(documents))
    /\ nodes' = batch_load_documents(nodes, Slice(documents, i))
    /\ calls' = Logged(Call("node", TRUE, Slice(documents, i)))
    /\ i' = i + batch_size
    /\ UNCHANGED <<parseVars, exportVars, pc, refs_data, edges, constraint, initial, aborts>>

\* the node loop is over: refs_data is built and the edge loop begins
NodesDone ==
    /\ pc = "nodes"
    /\ ~InRange(i, Len(documents))
    /\ refs_data' = RefsData(documents)
    /\ pc' = "edges"
    /\ i' = 0
    /\ UNCHANGED <<parseVars, exportVars, nodes, edges, constraint, initial, calls, aborts>>

\* one iteration of the edge loop: session.run(..., data=batch)
EdgeBatch ==
    /\ pc = "edges"
    /\ InRange(i, Len(refs_data))
    /\ LET after == UpsertEdges([nodes |-> nodes, edges |-> edges], Slice(refs_data, i))
       IN nodes' = after.nodes /\ edges' = after.edges
    /\ calls' = Logged(Call("edge", TRUE, Slice(refs_data, i)))
    /\ i' = i + batch_size
    /\ UNCHANGED <<parseVars, exportVars, pc, refs_data, constraint, initial, aborts>>

\* the edge loop is over: loader.close()
EdgesDone ==
    /\ pc = "edges"
    /\ ~InRange(i, Len(refs_data))
    /\ pc' = "done"
    /\ UNCHANGED <<parseVars, loadVars, exportVars>>

\* a store call raises: the exception leaves load_to_neo4j through `finally`
\* and ends main()
Abort(op, batch) ==
    /\ aborts < MaxAborts
    /\ aborts' = aborts + 1
    /\ calls' = Logged(Call(op, FALSE, batch))
    /\ pc' = "aborted"
    /\ UNCHANGED <<parseVars, exportVars, i, refs_data, initial>>

\* the failed query has changed nothing, or it took effect and only its
\* acknowledgement was lost
ConstraintsFail ==
    /\ pc = "constraints"
    /\ Abort("constraint", <<>>)
    /\ constraint' \in {constraint, TRUE}
    /\ UNCHANGED <<nodes, edges>>

NodeBatchFails ==
    /\ pc = "nodes"
    /\ InRange(i, Len(documents))
    /\ Abort("node", Slice(documents, i))
    /\ nodes' \in {nodes, batch_load_documents(nodes, Slice(documents, i))}
    /\ UNCHANGED <<edges, constraint>>

EdgeBatchFails ==
    /\ pc = "edges"
    /\ InRange(i, Len(refs_data))
    /\ Abort("edge", Slice(refs_data, i))
    /\ \E after \in {[nodes |-> nodes, edges |-> edges],
                     UpsertEdges([nodes |-> nodes, edges |-> edges], Slice(refs_data, i))} :
        nodes' = after.nodes /\ edges' = after.edges
    /\ UNCHANGED constraint

\* the caller runs the whole pipeline again, on the same file and the same store
Rerun ==
    /\ pc = "aborted"
    /\ pc' = "parse"
    /\ pos' = 0
    /\ current_doc' = <<>>
    /\ documents' = <<>>
    /\ origin' = <<>>
    /\ i' = 0
    /\ refs_data' = <<>>
    /\ calls' = Append(calls, <<>>)
    /\ UNCHANGED <<stream, nodes, edges, constraint, initial, aborts, exportVars>>

(***************************************************************************)
(* Exporter_doc.py.  A file is the text written to it.  The identifiers of *)
(* the stores of the model are one symbol long; IdSymbols lists those      *)
(* symbols in the order of their characters' code points, the order in     *)
(* which the store compares strings.                                       *)
(***************************************************************************)
IdSymbols == <<"10", "100", "200", "300", "9">>

SymbolRank(c) == CHOOSE k \in 1..Len(IdSymbols) : IdSymbols[k] = c

\* a < b for two strings
RECURSIVE StrLess(_, _)
StrLess(a, b) ==
    IF b = <<>> THEN FALSE
    ELSE IF a = <<>> THEN TRUE
    ELSE IF Head(a) = Head(b) THEN StrLess(Tail(a), Tail(b))
    ELSE SymbolRank(Head(a)) < SymbolRank(Head(b))

\* ORDER BY pmid, on the set S of strings
RECURSIVE OrderBy(_)
OrderBy(S) ==
    IF S = {} THEN <<>>
    ELSE LET m == CHOOSE x \in S : \A y \in S : ~StrLess(y, x)
         IN <<m>> \o OrderBy(S \ {m})

\* variant: no test of full_text
TextRowsAll(ns) == {k \in 1..Len(ns) : ns[k].pmid # None}

\* MATCH (d:Document) WHERE d.pmid IS NOT NULL AND d.full_text IS NOT NULL
TextRows(ns) == {k \in 1..Len(ns) : ns[k].pmid # None /\ ns[k].full_text # None}

\* f"{record['pmid']}/{record['text']}\n"
TextLine(pmid, text) == pmid \o <<"/">> \o text \o <<"\n">>

\* the rows in the order of ORDER BY d.pmid: the pmids of `keys` in order,
\* rows with the same pmid in the order of their nodes
RECURSIVE TextRowsBy(_, _)
TextRowsBy(ns, keys) ==
    IF keys = <<>> THEN <<>>
    ELSE SelectSeq([k \in 1..Len(ns) |-> k],
                   LAMBDA k : k \in TextRows(ns) /\ ns[k].pmid = Head(keys))
         \o TextRowsBy(ns, Tail(keys))

\* for record in results: f.write(line)
RECURSIVE WriteTextLines(_, _)
WriteTextLines(ns, rows) ==
    IF rows = <<>> THEN <<>>
    ELSE TextLine(ns[Head(rows)].pmid, ns[Head(rows)].full_text)
         \o WriteTextLines(ns, Tail(rows))

\* Neo4jExporter.export_documents_with_text: the text written to output_file
export_documents_with_text(ns) ==
    WriteTextLines(ns, TextRowsBy(ns, OrderBy({ns[k].pmid : k \in TextRows(ns)})))

\* the orders in which the items of S may be collected
Orderings(S) ==
    {o \in [1..Cardinality(S) -> S] : \A a, b \in 1..Cardinality(S) : o[a] = o[b] => a = b}

\* OPTIONAL MATCH (d)-[:REFERENCES]->(r:Document), for the nodes d of one pmid:
\* the relationships whose r.pmid collect() keeps (it skips null)
Collected(ns, es, pmid) ==
    {e \in 1..Len(es) : ns[es[e].src].pmid = pmid /\ ns[es[e].dst].pmid # None}

\* refs = [str(ref) for ref in refs if ref]; str() of a string is the string
Refs(ns, es, o) ==
    SelectSeq([j \in 1..Len(o) |-> ns[es[o[j]].dst].pmid], Truthy)

\* variant: the line always carries the separator
ReferencesLineSlash(pmid, refs) == pmid \o <<"/">> \o Join(refs, <<"/">>) \o <<"\n">>

\* line = pmid + "/" + "/".join(refs) + "\n" if refs else pmid + "\n"
ReferencesLine(pmid, refs) ==
    IF refs # <<>>
    THEN pmid \o <<"/">> \o Join(refs, <<"/">>) \o <<"\n">>
    ELSE pmid \o <<"\n">>

\* Neo4jExporter.export_documents_with_references: the texts that may be
\* written to output_file, one row per pmid of `keys`, keys in order; the
\* query leaves the order of collect(r.pmid) to the store
RECURSIVE ReferencesFiles(_, _, _)
ReferencesFiles(ns, es, keys) ==
    IF keys = <<>> THEN {<<>>}
    ELSE {ReferencesLine(Head(keys), Refs(ns, es, o)) \o rest :
            o \in Orderings(Collected(ns, es, Head(keys))),
            rest \in ReferencesFiles(ns, es, Tail(keys))}

export_documents_with_references(ns, es) ==
    ReferencesFiles(ns, es, OrderBy({ns[k].pmid : k \in 1..Len(ns)} \ {None}))

\* main() of Exporter_doc.py, run when no ingestion runs: get_statistics()
\* reads the store and prints
GetStatistics ==
    /\ pc \in {"done", "aborted"}
    /\ pc' = "export1"
    /\ UNCHANGED <<parseVars, loadVars, exportVars>>

\* exporter.export_documents_with_text("resultat_Neo4j_3_1.txt")
ExportText ==
    /\ pc = "export1"
    /\ file1' = export_documents_with_text(nodes)
    /\ pc' = "export2"
    /\ UNCHANGED <<parseVars, loadVars, file2>>

\* exporter.export_documents_with_references("resultat_Neo4j_3_2.txt")
ExportReferences ==
    /\ pc = "export2"
    /\ file2' \in export_documents_with_references(nodes, edges)
    /\ pc' = "exported"
    /\ UNCHANGED <<parseVars, loadVars, file1>>

(***************************************************************************)
(* The corpora of Spec: up to MaxDocs document elements, each of one of    *)
(* five shapes, and the two stores a run may find.                         *)
(***************************************************************************)
DocShapes ==
    { << Passage(<<Infon("article-id_pmid", <<"100">>), Infon("section_type", <<"TITLE">>)>>,
                 << <<"A", " ", "Study">> >>),
         Passage(<<Infon("section_type", <<"ABSTRACT">>), Infon("type", <<"abstract">>)>>,
                 << <<"Results", " ", "here.">> >>),
         Passage(<<Infon("section_type", <<"REF">>), Infon("pub-id_pmid", <<"200">>)>>, <<>>),
         Passage(<<Infon("section_type", <<"REF">>), Infon("pub-id_pmid", <<"300">>)>>, <<>>) >>,
      << Passage(<<Infon("article-id_pmid", <<"200">>), Infon("section_type", <<"TITLE">>)>>,
                 << <<"b">> >>) >>,
      << Passage(<<Infon("article-id_pmid", <<"300">>), Infon("section_type", <<"REF">>),
                   Infon("pub-id_pmid", <<"100">>)>>, <<>>),
         Passage(<<Infon("section_type", <<"REF">>), Infon("pub-id_pmid", <<"100">>)>>, <<>>) >>,
      << Passage(<<Infon("section_type", <<"REF">>), Infon("pub-id_pmid", <<"200">>)>>, <<>>) >>,
      << Passage(<<Infon("article-id_pmid", <<"100">>), Infon("section_type", <<"TITLE">>)>>,
                 << <<"c", "/", "d", "\n", "e">> >>) >> }

RECURSIVE PassageEvents(_)
PassageEvents(ps) ==
    IF ps = <<>> THEN <<>>
    ELSE <<StartPassage, EndPassageOf(Head(ps))>> \o PassageEvents(Tail(ps))

RECURSIVE DocEvents(_)
DocEvents(docs) ==
    IF docs = <<>> THEN <<>>
    ELSE <<StartDoc>> \o PassageEvents(Head(docs)) \o <<EndDoc>> \o DocEvents(Tail(docs))

Corpora ==
    { <<StartCollection>> \o DocEvents(docs) \o <<EndCollection>> :
        docs \in UNION {[1..n -> DocShapes] : n \in 0..MaxDocs} }

EmptyStore == [nodes |-> <<>>, edges |-> <<>>]

\* what an earlier ingestion of {pmid 300, title 'old', no abstract, references [200]} left
EarlierStore ==
    [nodes |-> << [pmid |-> <<"300">>, title |-> <<"old">>, abstract |-> <<>>,
                   full_text |-> <<"old", " ">>],
                  Bare(<<"200">>) >>,
     edges |-> << [src |-> 1, dst |-> 2] >>]

InitLoad ==
    /\ pc = "parse"
    /\ i = 0
    /\ refs_data = <<>>
    /\ calls = << <<>> >>
    /\ aborts = 0

InitExport ==
    /\ file1 = <<>>
    /\ file2 = <<>>

InitParse ==
    /\ stream = <<>>
    /\ pos = 0
    /\ current_doc = <<>>
    /\ documents = <<>>
    /\ origin = <<>>
    /\ nodes = <<>>
    /\ edges = <<>>
    /\ constraint = FALSE
    /\ initial = EmptyStore
    /\ InitLoad
    /\ InitExport

NextParse ==
    \/ StartDocument
    \/ EndDocument
    \/ EndPassage
    \/ OtherEvent
    \/ ParseReturn

\* the extractor alone, on every stream within MaxStreamDocs and MaxStreamPassages
SpecParse == InitParse /\ [][NextParse]_vars

Init ==
    /\ stream \in Corpora
    /\ pos = 0
    /\ current_doc = <<>>
    /\ documents = <<>>
    /\ origin = <<>>
    /\ initial \in {EmptyStore, EarlierStore}
    /\ nodes = initial.nodes
    /\ edges = initial.edges
    /\ constraint = (initial # EmptyStore)
    /\ InitLoad
    /\ InitExport

Next ==
    \/ StartDocument
    \/ EndDocument
    \/ EndPassage
    \/ OtherEvent
    \/ ParseReturn
    \/ CreateConstraints
    \/ NodeBatch
    \/ NodesDone
    \/ EdgeBatch
    \/ EdgesDone
    \/ ConstraintsFail
    \/ NodeBatchFails
    \/ EdgeBatchFails
    \/ Rerun
    \/ GetStatistics
    \/ ExportText
    \/ ExportReferences

\* main() on every corpus, with up to MaxAborts failed runs before the run that completes,
\* and the exporter on the store a run has left
Spec == Init /\ [][Next]_vars

(***************************************************************************)
(* The stores of SpecExport: what any earlier use of the database may have *)
(* left.  Nodes that have a pmid have different pmids (the constraint); a  *)
(* node may lack pmid, or full_text, or both.                              *)
(***************************************************************************)
ExportNodes ==
    { [pmid |-> <<"9">>, title |-> <<"t", "\n", "u">>, abstract |-> <<>>,
       full_text |-> <<"t", "\n", "u", " ">>],
      [pmid |-> <<"10">>, title |-> <<"a", "/", "b">>, abstract |-> <<"c">>,
       full_text |-> <<"a", "/", "b", " ", "c">>],
      Bare(<<"100">>),
      [pmid |-> None, title |-> <<"x">>, abstract |-> <<>>, full_text |-> <<"x", " ">>],
      Bare(None) }

\* the relationships of E, as the store numbers them
RECURSIVE EdgeSeq(_)
EdgeSeq(E) ==
    IF E = {} THEN <<>>
    ELSE LET e == CHOOSE x \in E :
                    \A y \in E : x.src < y.src \/ (x.src = y.src /\ x.dst <= y.dst)
         IN <<e>> \o EdgeSeq(E \ {e})

ExportStores ==
    { [nodes |-> ns, edges |-> EdgeSeq(E)] :
        ns \in {o \in UNION {[1..n -> ExportNodes] : n \in 0..MaxExportNodes} :
                    \A a, b \in 1..Len(o) : o[a] = o[b] => a = b},
        E \in {F \in SUBSET [src : 1..MaxExportNodes, dst : 1..MaxExportNodes] :
                    Cardinality(F) <= MaxExportEdges} }

\* the exporter finds the store as a run of main() on an empty collection left it
InitExporter ==
    /\ \E store \in ExportStores :
        /\ \A k \in 1..Len(store.edges) :
            store.edges[k].src <= Len(store.nodes) /\ store.edges[k].dst <= Len(store.nodes)
        /\ initial = store
        /\ nodes = store.nodes
        /\ edges = store.edges
    /\ stream = <<StartCollection, EndCollection>>
    /\ pos = 2
    /\ current_doc = <<>>
    /\ documents = <<>>
    /\ origin = <<>>
    /\ pc = "done"
    /\ i = 0
    /\ refs_data = <<>>
    /\ constraint = TRUE
    /\ calls = << <<Call("constraint", TRUE, <<>>)>> >>
    /\ aborts = 0
    /\ InitExport

NextExport ==
    \/ GetStatistics
    \/ ExportText
    \/ ExportReferences

\* main() of Exporter_doc.py on every store within MaxExportNodes and MaxExportEdges
SpecExport == InitExporter /\ [][NextExport]_vars

(***************************************************************************)
(* What the claims speak of: the document elements of the input, read      *)
(* from the events alone.                                                  *)
(***************************************************************************)
Consumed == SubSeq(stream, 1, pos)

\* the passages of every closed document element of s, one sequence per element
RECURSIVE Split(_, _, _, _)
Split(s, open, cur, acc) ==
    IF s = <<>> THEN acc
    ELSE IF Head(s) = StartDoc THEN Split(Tail(s), TRUE, <<>>, acc)
    ELSE IF Head(s) = EndDoc THEN Split(Tail(s), FALSE, <<>>, Append(acc, cur))
    ELSE IF Head(s).event = "end" /\ Head(s).tag = "passage" /\ open
    THEN Split(Tail(s), open, Append(cur, Head(s).elem), acc)
    ELSE Split(Tail(s), open, cur, acc)

ClosedDocs == Split(Consumed, FALSE, <<>>, <<>>)

\* the value of the passage's annotation `key` (None when it has none)
Annotation(p, key) == Get(InfonsDict(p.infons), key)

Annotated(p, key) == HasKey(InfonsDict(p.infons), key)

\* the passage's text content ('' when it has no text)
TextContent(p) == IF p.text = <<>> \/ p.text[1] = None THEN <<>> ELSE p.text[1]

Last(seq) == seq[Len(seq)]

\* the identifier annotations of document element d, in passage order
IdValues(d) ==
    LET ps == SelectSeq(d, LAMBDA p : Annotated(p, "article-id_pmid"))
    IN [k \in 1..Len(ps) |-> Annotation(ps[k], "article-id_pmid")]

Records == 1..Len(documents)

\* every record has its document element among docs
OriginIn(docs) ==
    Len(origin) = Len(documents) /\ \A k \in Records : origin[k] \in 1..Len(docs)

\* the indices, ascending, of the document elements of docs whose identifier
\* annotations satisfy the test
Annotated_Any(docs) ==
    SelectSeq([k \in 1..Len(docs) |-> k], LAMBDA k : IdValues(docs[k]) # <<>>)

Annotated_LastNonEmpty(docs) ==
    SelectSeq([k \in 1..Len(docs) |-> k],
              LAMBDA k : LET ids == IdValues(docs[k]) IN ids # <<>> /\ Truthy(Last(ids)))

(***************************************************************************)
(* C1 (as stated): one record per document element that carries an         *)
(* identifier annotation, in input order, and none for the others.         *)
(***************************************************************************)
C1_RecordPerAnnotatedDoc ==
    /\ Len(documents) = Len(origin)
    /\ origin = Annotated_Any(ClosedDocs)

(***************************************************************************)
(* C1 (amended): at every point of the parse, the records emitted so far   *)
(* are, one for one and in input order, the closed document elements whose *)
(* last identifier annotation has a non-empty value; an element with no    *)
(* identifier annotation, or whose last one is empty, gives no record.     *)
(***************************************************************************)
C1_RecordPerIdentifiedDoc ==
    /\ Len(documents) = Len(origin)
    /\ origin = Annotated_LastNonEmpty(ClosedDocs)

\* the parse has returned two records with different identifiers out of three
\* document elements, one of which was dropped
C1_Witness ==
    /\ pc = "constraints"
    /\ Len(ClosedDocs) = 3
    /\ Len(documents) = 2
    /\ documents[1].pmid # documents[2].pmid

(***************************************************************************)
(* C2 (as stated): a record's identifier is the first identifier           *)
(* annotation of its document element.                                     *)
(***************************************************************************)
C2_FirstIdentifierWins ==
    LET docs == ClosedDocs
    IN OriginIn(docs) =>
        \A k \in Records :
            LET ids == IdValues(docs[origin[k]])
            IN ids # <<>> /\ documents[k].pmid = ids[1]

(***************************************************************************)
(* C2 (amended): a record's identifier is the last identifier annotation   *)
(* of its document element: every passage that carries one overwrites      *)
(* pending_id.                                                             *)
(***************************************************************************)
C2_LastIdentifierWins ==
    LET docs == ClosedDocs
    IN /\ OriginIn(docs)
       /\ \A k \in Records :
            LET ids == IdValues(docs[origin[k]])
            IN ids # <<>> /\ documents[k].pmid = Last(ids)

\* a record whose document element carries two different identifiers
C2_Witness ==
    LET docs == ClosedDocs
    IN /\ OriginIn(docs)
       /\ \E k \in Records :
            LET ids == IdValues(docs[origin[k]])
            IN Len(ids) = 2 /\ ids[1] # ids[2] /\ Truthy(ids[1])

(***************************************************************************)
(* C8 (as stated): when the document element has TITLE passages, the       *)
(* record's title is the trimmed text content of the last of them.         *)
(***************************************************************************)
TitlePassages(d) == SelectSeq(d, LAMBDA p : Annotation(p, "section_type") = <<"TITLE">>)

C8_TitleOfLastTitlePassage ==
    LET docs == ClosedDocs
    IN OriginIn(docs) =>
        \A k \in Records :
            LET ps == TitlePassages(docs[origin[k]])
            IN ps # <<>> => documents[k].title = Strip(TextContent(Last(ps)))

(***************************************************************************)
(* C8 (amended): the record's title is the trimmed text of the last TITLE  *)
(* passage that has a non-empty text; a TITLE passage without text leaves  *)
(* the title as it was, and with no TITLE passage that has text the title  *)
(* is the empty string.                                                    *)
(***************************************************************************)
TitledPassages(d) == SelectSeq(TitlePassages(d), LAMBDA p : TextContent(p) # <<>>)

C8_TitleOfLastTitledPassage ==
    LET docs == ClosedDocs
    IN /\ OriginIn(docs)
       /\ \A k \in Records :
            LET ps == TitledPassages(docs[origin[k]])
            IN documents[k].title = IF ps = <<>> THEN <<>> ELSE Strip(TextContent(Last(ps)))

\* a record whose document element has two TITLE passages with different texts
C8_Witness ==
    LET docs == ClosedDocs
    IN /\ OriginIn(docs)
       /\ \E k \in Records :
            LET ps == TitledPassages(docs[origin[k]])
            IN /\ Len(ps) = 2
               /\ TextContent(ps[1]) # TextContent(ps[2])
               /\ documents[k].title # <<>>

(***************************************************************************)
(* C9: a record's abstract is the single-space join, in document order, of *)
(* the trimmed texts of the passages of its document element classified    *)
(* ABSTRACT with subtype exactly 'abstract' (a passage without text has no *)
(* text to contribute); ABSTRACT passages of another subtype add nothing.  *)
(***************************************************************************)
AbstractPassages(d) ==
    SelectSeq(d, LAMBDA p : /\ Annotation(p, "section_type") = <<"ABSTRACT">>
                            /\ Annotation(p, "type") = <<"abstract">>
                            /\ TextContent(p) # <<>>)

RefPassages(d) ==
    SelectSeq(d, LAMBDA p : /\ Annotation(p, "section_type") = <<"REF">>
                            /\ Truthy(Annotation(p, "pub-id_pmid")))

C10_ReferencesInOrderWithRepeats ==
    LET docs == ClosedDocs
    IN /\ OriginIn(docs)
       /\ \A k \in Records :
            LET ps == RefPassages(docs[origin[k]])
            IN documents[k].references =
                    [j \in 1..Len(ps) |-> Annotation(ps[j], "pub-id_pmid")]

\* a record that cites the same identifier twice
C10_Witness ==
    /\ Len(origin) = Len(documents)
    /\ \E k \in Records :
        /\ Len(documents[k].references) = 2
        /\ documents[k].references[1] = documents[k].references[2]

(***************************************************************************)
(* What the ingestion claims speak of.                                     *)
(***************************************************************************)
Store == [nodes |-> nodes, edges |-> edges]

RECURSIVE Flatten(_)
Flatten(seqs) == IF seqs = <<>> THEN <<>> ELSE Head(seqs) \o Flatten(Tail(seqs))

Rank(op) == CASE op = "constraint" -> 0 [] op = "node" -> 1 [] op = "edge" -> 2

\* the batches of the calls `op` of a run, in issue order
BatchesOf(run, op) ==
    LET cs == SelectSeq(run, LAMBDA c : c.op = op)
    IN [k \in 1..Len(cs) |-> cs[k].batch]

\* the calls of a run come in the order constraint, node*, edge*, and nothing
\* follows a call that failed
InOrder(run) ==
    /\ \A k \in 1..Len(run) : (k = 1) <=> (run[k].op = "constraint")
    /\ \A j, k \in 1..Len(run) : j < k => Rank(run[j].op) <= Rank(run[k].op) /\ run[j].ok

(***************************************************************************)
(* C3: in every run the store calls are the constraint setup, then the     *)
(* node-upsert batches, then the edge-upsert batches; when an edge-upsert  *)
(* batch is issued, the node-upsert batches that completed before it hold  *)
(* every record of the corpus.                                             *)
(***************************************************************************)
C3_ConstraintThenNodesThenEdges ==
    /\ \A r \in 1..Len(calls) : InOrder(calls[r])
    /\ (\E k \in 1..Len(ThisRun) : ThisRun[k].op = "edge") =>
            /\ Flatten(BatchesOf(ThisRun, "node")) = documents
            /\ \A k \in 1..Len(ThisRun) : ThisRun[k].op = "node" => ThisRun[k].ok

\* a completed run that needed two node-upsert batches and two edge-upsert batches
C3_Witness ==
    /\ pc = "done"
    /\ Len(BatchesOf(ThisRun, "node")) = 2
    /\ Len(BatchesOf(ThisRun, "edge")) = 2

(***************************************************************************)
(* C4: once the edge pass has completed, every relationship joins two      *)
(* nodes of the store, and every identifier a record cites has its node    *)
(* and its relationship from the record's node, whether or not the         *)
(* identifier is that of a record.                                         *)
(***************************************************************************)
C4_EndpointsExist ==
    pc = "done" =>
        /\ \A k \in 1..Len(edges) :
            edges[k].src \in 1..Len(nodes) /\ edges[k].dst \in 1..Len(nodes)
        /\ \A k \in Records : \A t \in 1..Len(documents[k].references) :
            \E a \in Matches(nodes, documents[k].pmid) :
                \E b \in Matches(nodes, documents[k].references[t]) :
                    \E e \in 1..Len(edges) : edges[e] = [src |-> a, dst |-> b]

\* a completed run on an empty store that left a relationship to a bare node
\* whose identifier is no record's
C4_Witness ==
    /\ pc = "done"
    /\ initial = EmptyStore
    /\ \E e \in 1..Len(edges) :
        /\ nodes[edges[e].dst] = Bare(nodes[edges[e].dst].pmid)
        /\ \A k \in Records : documents[k].pmid # nodes[edges[e].dst].pmid

(***************************************************************************)
(* C5: on every store the pipeline reaches and every batch of consecutive  *)
(* records, a second node upsert of the batch changes nothing, the store   *)
(* holds one node per identifier, and the node of each record of the batch *)
(* carries the title, abstract and full_text of the last record of the     *)
(* batch with that identifier.                                             *)
(***************************************************************************)
Slices(docs) == {SubSeq(docs, a, b) : a \in 1..Len(docs), b \in 0..Len(docs)}

UniquePmids(ns) == \A a, b \in 1..Len(ns) : ns[a].pmid = ns[b].pmid => a = b

LastWith(batch, pmid) ==
    batch[CHOOSE k \in 1..Len(batch) :
            /\ batch[k].pmid = pmid
            /\ \A j \in 1..Len(batch) : batch[j].pmid = pmid => j <= k]

C5_NodeUpsertIdempotent ==
    \A batch \in Slices(documents) :
        LET once == batch_load_documents(nodes, batch)
            twice == batch_load_documents(once, batch)
        IN /\ twice = once
           /\ UniquePmids(once)
           /\ \A k \in 1..Len(batch) :
                LET last == LastWith(batch, batch[k].pmid)
                IN \E n \in 1..Len(once) :
                    /\ once[n].pmid = batch[k].pmid
                    /\ once[n].title = last.title
                    /\ once[n].abstract = last.abstract
                    /\ once[n].full_text = last.title \o <<" ">> \o last.abstract

\* a re-run has applied again a node batch that the failed run had applied
\* (the failed run reached its edge pass)
C5_Witness ==
    /\ initial = EmptyStore
    /\ Len(calls) = 2
    /\ \E k \in 1..Len(calls[1]) : calls[1][k].op = "edge"
    /\ \E k \in 1..Len(calls[2]) : /\ calls[2][k].op = "node"
                                   /\ calls[2][k].ok
                                   /\ Len(calls[2][k].batch) = 2

(***************************************************************************)
(* C6: in every store state there is at most one relationship per ordered  *)
(* pair (source identifier, target identifier).                            *)
(***************************************************************************)
EdgeIds(k) == <<nodes[edges[k].src].pmid, nodes[edges[k].dst].pmid>>

C6_OneEdgePerPair ==
    \A a, b \in 1..Len(edges) : EdgeIds(a) = EdgeIds(b) => a = b

RepeatsTarget(call) ==
    \E k \in 1..Len(call.batch) :
        \E a, b \in 1..Len(call.batch[k].refs) :
            a # b /\ call.batch[k].refs[a] = call.batch[k].refs[b]

\* an edge batch holding a record that cites one identifier twice has taken
\* effect in a failed run and again in the re-run
C6_Witness ==
    /\ pc = "done"
    /\ Len(calls) = 2
    /\ \E k \in 1..Len(calls[1]) :
        calls[1][k].op = "edge" /\ calls[1][k].ok /\ RepeatsTarget(calls[1][k])
    /\ \E k \in 1..Len(calls[2]) :
        calls[2][k].op = "edge" /\ calls[2][k].ok /\ RepeatsTarget(calls[2][k])

(***************************************************************************)
(* C7: a run that completes after failed runs on the same input leaves the *)
(* store exactly as one run without failure would have left it.            *)
(***************************************************************************)
RECURSIVE NodePass(_, _, _)
NodePass(ns, docs, k) ==
    IF k < Len(docs)
    THEN NodePass(batch_load_documents(ns, Slice(docs, k)), docs, k + batch_size)
    ELSE ns

RECURSIVE EdgePass(_, _, _)
EdgePass(store, data, k) ==
    IF k < Len(data)
    THEN EdgePass(UpsertEdges(store, Slice(data, k)), data, k + batch_size)
    ELSE store

\* the store after one run without failure
CleanRun(store, docs) ==
    EdgePass([nodes |-> NodePass(store.nodes, docs, 0), edges |-> store.edges],
             RefsData(docs), 0)

C7_RerunReachesSameStore ==
    pc = "done" => Store = CleanRun(initial, documents)

\* a re-run has completed after a run that failed at its second edge batch
C7_Witness ==
    /\ pc = "done"
    /\ Len(calls) = 2
    /\ edges # <<>>
    /\ \E k \in 2..Len(calls[1]) :
        /\ calls[1][k].op = "edge" /\ ~calls[1][k].ok
        /\ calls[1][k - 1].op = "edge"

(***************************************************************************)
(* C11: in every run, the batches of the node pass and the batches of the  *)
(* edge pass are non-empty and hold at most batch_size items, every batch  *)
(* but the last issued holds exactly batch_size, the batches issued so far *)
(* are, concatenated in issue order, the front of the pass's input (the    *)
(* records for the node pass, refs_data for the edge pass), and a pass     *)
(* that is over has issued all of its input.                               *)
(***************************************************************************)
IsPrefix(a, b) == Len(a) <= Len(b) /\ SubSeq(b, 1, Len(a)) = a

WellSized(batches) ==
    \A k \in 1..Len(batches) :
        /\ batches[k] # <<>>
        /\ Len(batches[k]) <= batch_size
        /\ k < Len(batches) => Len(batches[k]) = batch_size

C11_BatchesPartitionThePass ==
    pc \notin {"parse", "constraints"} =>
        LET nodeBatches == BatchesOf(ThisRun, "node")
            edgeBatches == BatchesOf(ThisRun, "edge")
        IN /\ WellSized(nodeBatches)
           /\ WellSized(edgeBatches)
           /\ IsPrefix(Flatten(nodeBatches), documents)
           /\ IsPrefix(Flatten(edgeBatches), RefsData(documents))
           /\ pc \in {"edges", "done"} => Flatten(nodeBatches) = documents
           /\ pc = "done" => Flatten(edgeBatches) = RefsData(documents)

\* a completed run whose node pass and edge pass each issued a full batch
\* and a smaller last one
C11_Witness ==
    /\ pc = "done"
    /\ Len(BatchesOf(ThisRun, "node")) = 2
    /\ Len(BatchesOf(ThisRun, "node")[2]) < batch_size
    /\ Len(BatchesOf(ThisRun, "edge")) = 2
    /\ Len(BatchesOf(ThisRun, "edge")[2]) < batch_size

(***************************************************************************)
(* C12: no two nodes of the store ever share an identifier, and a node     *)
(* upsert that meets a bare placeholder (identifier only) whose identifier *)
(* is that of a record of the batch leaves that very node, and no other    *)
(* node, with the identifier, and with the title, the abstract and the     *)
(* full_text of the record.                                                *)
(***************************************************************************)
Filled(pmid, doc) ==
    [pmid |-> pmid,
     title |-> doc.title,
     abstract |-> doc.abstract,
     full_text |-> doc.title \o <<" ">> \o doc.abstract]

\* the step is a node upsert of `batch` that took effect
NodeUpsertOf(batch) ==
    /\ pc = "nodes"
    /\ InRange(i, Len(documents))
    /\ batch = Slice(documents, i)
    /\ i' = i + batch_size

PlaceholderFilled ==
    \A n \in 1..Len(nodes) :
        LET pmid == nodes[n].pmid
            batch == Slice(documents, i)
        IN (NodeUpsertOf(batch) /\ nodes[n] = Bare(pmid)
                /\ \E k \in 1..Len(batch) : batch[k].pmid = pmid) =>
            /\ n \in 1..Len(nodes')
            /\ nodes'[n] = Filled(pmid, LastWith(batch, pmid))
            /\ Matches(nodes', pmid) = {n}

C12_PlaceholderFilledInPlace ==
    /\ [](UniquePmids(nodes))
    /\ [][PlaceholderFilled]_vars

\* the placeholder an earlier ingestion left for 200 now carries the
\* attributes of the record 200, and is still the only node 200
C12_Witness ==
    /\ initial = EarlierStore
    /\ initial.nodes[2] = Bare(<<"200">>)
    /\ Len(nodes) >= 2
    /\ nodes[2].pmid = <<"200">>
    /\ nodes[2].full_text # None
    /\ Matches(nodes, <<"200">>) = {2}

(***************************************************************************)
(* C13 (as stated): the extractor hands each record over before it starts  *)
(* on the next document element, so that while it runs it holds the data   *)
(* of one document at most: the working state of the open element, or the  *)
(* one record not yet handed over.                                         *)
(***************************************************************************)
C13_HoldsOneDocumentAtATime ==
    pc = "parse" => Len(documents) + Len(current_doc) <= 1

(***************************************************************************)
(* What the export claims speak of: the files as a reader takes them       *)
(* apart.                                                                  *)
(***************************************************************************)
\* text.split(sep)
RECURSIVE SplitAt(_, _)
SplitAt(text, sep) ==
    IF text = <<>> THEN << <<>> >>
    ELSE LET rest == SplitAt(Tail(text), sep)
         IN IF Head(text) = sep
            THEN << <<>> >> \o rest
            ELSE << <<Head(text)>> \o rest[1] >> \o Tail(rest)

\* the lines of a file, each without its terminating newline
Lines(text) ==
    LET pieces == SplitAt(text, "\n")
    IN IF Last(pieces) = <<>> THEN SubSeq(pieces, 1, Len(pieces) - 1) ELSE pieces

\* line.split(sep, 1)
SplitFirst(line, sep) ==
    LET pieces == SplitAt(line, sep)
    IN IF Len(pieces) = 1 THEN pieces
       ELSE <<pieces[1], Join(Tail(pieces), <<sep>>)>>

\* the nodes export 1 is to list, and those export 2 is to list
WithText == {k \in 1..Len(nodes) : nodes[k].pmid # None /\ nodes[k].full_text # None}

WithId == {k \in 1..Len(nodes) : nodes[k].pmid # None}

\* o lists nodes in ascending order of identifier
Ascending(o) ==
    \A j \in 1..(Len(o) - 1) : StrLess(nodes[o[j]].pmid, nodes[o[j + 1]].pmid)

Outgoing(n) == {e \in 1..Len(edges) : edges[e].src = n /\ nodes[edges[e].dst].pmid # None}

C15_ReferencesFileListsNodesWithId ==
    pc = "exported" =>
        \E o \in Orderings(WithId) :
            /\ Ascending(o)
            /\ Len(Lines(file2)) = Len(o)
            /\ file2 # <<>> => Last(file2) = "\n"
            /\ \A j \in 1..Len(o) :
                LET parts == SplitAt(Lines(file2)[j], "/")
                IN /\ parts[1] = nodes[o[j]].pmid
                   /\ \E t \in Orderings(Outgoing(o[j])) :
                        Tail(parts) = [m \in 1..Len(t) |-> nodes[edges[t[m]].dst].pmid]

\* export 2 has run on a store that holds a placeholder without outgoing
\* relationship and a node with two, the greater identifier first in the store
C15_Witness ==
    /\ pc = "exported"
    /\ \E n \in WithId : nodes[n] = Bare(nodes[n].pmid) /\ Outgoing(n) = {}
    /\ \E n \in WithId : Cardinality(Outgoing(n)) = 2
    /\ \E a, b \in WithId : a < b /\ StrLess(nodes[b].pmid, nodes[a].pmid)

(***************************************************************************)
(* C16 (as stated): once both exports have run on a store that ingestion   *)
(* has left, a reader that splits each line of file 1 at its first '/'     *)
(* finds, for every node that has a full_text, the node's identifier and   *)
(* full_text, and a reader that splits each line of file 2 at every '/'    *)
(* finds, for every node, its identifier followed by exactly the           *)
(* identifiers of the targets of its outgoing relationships.               *)
(***************************************************************************)
\* the (id, full_text) pairs read back from file 1
ReadTexts == {SplitFirst(Lines(file1)[j], "/") : j \in 1..Len(Lines(file1))}

\* the (id, target ids) pairs read back from file 2
ReadReferences ==
    {LET parts == SplitAt(Lines(file2)[j], "/")
     IN <<parts[1], {parts[m] : m \in 2..Len(parts)}>> : j \in 1..Len(Lines(file2))}

C16_ExportRoundTrip ==
    pc = "exported" =>
        /\ \A k \in WithText : <<nodes[k].pmid, nodes[k].full_text>> \in ReadTexts
        /\ \A k \in WithId :
            <<nodes[k].pmid, {nodes[edges[e].dst].pmid : e \in Outgoing(k)}>> \in ReadReferences

(***************************************************************************)
(* The example of C17: one document element with identifier '100', title   *)
(* 'A Study', one abstract passage 'Results here.' and two REF passages    *)
(* citing '200' and '300', ingested into an empty store and exported.      *)
(***************************************************************************)
ExampleDocument ==
    << Passage(<<Infon("article-id_pmid", <<"100">>), Infon("section_type", <<"TITLE">>)>>,
               << <<"A", " ", "Study">> >>),
       Passage(<<Infon("section_type", <<"ABSTRACT">>), Infon("type", <<"abstract">>)>>,
               << <<"Results", " ", "here.">> >>),
       Passage(<<Infon("section_type", <<"REF">>), Infon("pub-id_pmid", <<"200">>)>>, <<>>),
       Passage(<<Infon("section_type", <<"REF">>), Infon("pub-id_pmid", <<"300">>)>>, <<>>) >>

ExampleCorpus == <<StartCollection>> \o DocEvents(<<ExampleDocument>>) \o <<EndCollection>>

\* the example's input, on an empty store
IsExample == stream = ExampleCorpus /\ initial = EmptyStore

\* the run of main() that came last has gone through without failure
RunCompleted ==
    /\ pc \in {"done", "export1", "export2", "exported"}
    /\ \A k \in 1..Len(ThisRun) : ThisRun[k].ok

ExampleRecord ==
    [pmid |-> <<"100">>,
     title |-> <<"A", " ", "Study">>,
     abstract |-> <<"Results", " ", "here.">>,
     references |-> << <<"200">>, <<"300">> >>]

\* node 100 with full_text 'A Study Results here.', bare nodes 200 and 300,
\* and the relationships 100 -> 200 and 100 -> 300, nothing else
ExampleStored ==
    /\ Len(nodes) = 3
    /\ {nodes[k] : k \in 1..Len(nodes)} =
            { [pmid |-> <<"100">>,
               title |-> <<"A", " ", "Study">>,
               abstract |-> <<"Results", " ", "here.">>,
               full_text |-> <<"A", " ", "Study", " ", "Results", " ", "here.">>],
              Bare(<<"200">>),
              Bare(<<"300">>) }
    /\ Len(edges) = 2
    /\ {EdgeIds(k) : k \in 1..Len(edges)} =
            { << <<"100">>, <<"200">> >>, << <<"100">>, <<"300">> >> }

HasLine(file, line) == \E j \in 1..Len(Lines(file)) : Lines(file)[j] = line

(***************************************************************************)
(* C17 (as stated): the example yields the record {100, 'A Study',         *)
(* 'Results here.', ['200', '300']}, the store described above, and the    *)
(* export-2 line '100/200/300'.                                            *)
(***************************************************************************)
C17_ExampleLineInCitationOrder ==
    IsExample =>
        /\ pc # "parse" => documents = <<ExampleRecord>>
        /\ RunCompleted => ExampleStored
        /\ (RunCompleted /\ pc = "exported") =>
                HasLine(file2, <<"100", "/", "200", "/", "300">>)

(***************************************************************************)
(* C17 (amended): the example yields that record and that store, and the   *)
(* export-2 line of node 100 is '100', then '200' and '300' in the order   *)
(* in which the store collects them: '100/200/300' or '100/300/200'.       *)
(***************************************************************************)
C17_ExampleLineInStoreOrder ==
    IsExample =>
        /\ pc # "parse" => documents = <<ExampleRecord>>
        /\ RunCompleted => ExampleStored
        /\ (RunCompleted /\ pc = "exported") =>
                /\ \/ HasLine(file2, <<"100", "/", "200", "/", "300">>)
                   \/ HasLine(file2, <<"100", "/", "300", "/", "200">>)
                /\ Len(Lines(file2)) = 3

\* the example has been extracted, ingested in one run and exported
C17_Witness ==
    /\ IsExample
    /\ RunCompleted
    /\ Len(calls) = 1
    /\ pc = "exported"
    /\ file2 # <<>>

(***************************************************************************)
(* C18: in every store state of a sequence of runs that began on an empty  *)
(* store, the state a failed run leaves included, every relationship       *)
(* joins two nodes of the store that both carry an identifier, and no two  *)
(* nodes carry the same identifier.                                        *)
(***************************************************************************)
C18_StoreValidAtEveryStep ==
    initial = EmptyStore =>
        /\ UniquePmids(nodes)
        /\ \A e \in 1..Len(edges) :
            /\ edges[e].src \in 1..Len(nodes)
            /\ edges[e].dst \in 1..Len(nodes)
            /\ Truthy(nodes[edges[e].src].pmid)
            /\ Truthy(nodes[edges[e].dst].pmid)

\* a run that began on an empty store has failed in its edge pass, leaving
\* some relationships in the store and a cited identifier without its own
C18_Witness ==
    /\ initial = EmptyStore
    /\ pc = "aborted"
    /\ edges # <<>>
    /\ \E k \in Records : \E t \in 1..Len(documents[k].references) :
        \A e \in 1..Len(edges) : EdgeIds(e) # <<documents[k].pmid, documents[k].references[t]>>

(***************************************************************************)
(* C19: when a run that began on an empty store has completed, the nodes   *)
(* of the store are, one each, the identifiers of the emitted records and  *)
(* the identifiers these records cite; the relationships are, one each,    *)
(* the pairs (record, cited identifier); a node that is no record's is     *)
(* bare.  The records are those of the identified document elements, so a  *)
(* document element without identifier gives no node, no attribute and no  *)
(* relationship, whatever it cites.                                        *)
(***************************************************************************)
\* the identifiers a document element cites
Cited(d) == LET ps == RefPassages(d) IN {Annotation(ps[j], "pub-id_pmid") : j \in 1..Len(ps)}

\* the document elements of the input that have an identifier
Identified(docs) ==
    {k \in 1..Len(docs) : LET ids == IdValues(docs[k]) IN ids # <<>> /\ Truthy(Last(ids))}

C19_StoreIsExactlyTheCorpus ==
    (initial = EmptyStore /\ RunCompleted) =>
        LET docs == ClosedDocs
            ids == {Last(IdValues(docs[k])) : k \in Identified(docs)}
            cited == UNION {Cited(docs[k]) : k \in Identified(docs)}
            pairs == UNION {{Last(IdValues(docs[k]))} \X Cited(docs[k]) : k \in Identified(docs)}
        IN /\ ids = {documents[k].pmid : k \in Records}
           /\ pairs = UNION {{documents[k].pmid} \X
                                {documents[k].references[t] : t \in 1..Len(documents[k].references)} :
                             k \in Records}
           /\ {nodes[n].pmid : n \in 1..Len(nodes)} = ids \cup cited
           /\ Len(nodes) = Cardinality(ids \cup cited)
           /\ {EdgeIds(e) : e \in 1..Len(edges)} = pairs
           /\ Len(edges) = Cardinality(pairs)
           /\ \A n \in 1..Len(nodes) : nodes[n].pmid \notin ids => nodes[n] = Bare(nodes[n].pmid)

\* a single run on an empty store has completed on a corpus that holds a
\* document element without identifier whose REF passage cites an identifier
\* found nowhere in the store, next to a record with a relationship
C19_Witness ==
    /\ initial = EmptyStore
    /\ RunCompleted
    /\ Len(calls) = 1
    /\ edges # <<>>
    /\ \E k \in 1..Len(ClosedDocs) :
        /\ IdValues(ClosedDocs[k]) = <<>>
        /\ Cited(ClosedDocs[k]) # {}
        /\ \A n \in 1..Len(nodes) : nodes[n].pmid \notin Cited(ClosedDocs[k])

(***************************************************************************)
(* C20: the working state exists only inside a document element and is, at *)
(* every point, what the passages of the open element read so far give;    *)
(* each record is what the passages of its own document element give.      *)
(* Nothing of an earlier document element, emitted or dropped, and nothing *)
(* of a passage outside any document element, is in a record.              *)
(***************************************************************************)
\* the passages read so far of the document element that is open
RECURSIVE OpenPassages(_, _)
OpenPassages(s, cur) ==
    IF s = <<>> THEN cur
    ELSE IF Head(s) = StartDoc \/ Head(s) = EndDoc THEN OpenPassages(Tail(s), <<>>)
    ELSE IF Head(s).event = "end" /\ Head(s).tag = "passage"
    THEN OpenPassages(Tail(s), Append(cur, Head(s).elem))
    ELSE OpenPassages(Tail(s), cur)

\* what the passages d of one document element give
IdOf(d) == LET ids == IdValues(d) IN IF ids = <<>> THEN None ELSE Last(ids)

TitleOf(d) ==
    LET ps == TitledPassages(d) IN IF ps = <<>> THEN <<>> ELSE Strip(TextContent(Last(ps)))

AbstractPartsOf(d) ==
    LET ps == AbstractPassages(d) IN [j \in 1..Len(ps) |-> Strip(TextContent(ps[j]))]

ReferencesOf(d) ==
    LET ps == RefPassages(d) IN [j \in 1..Len(ps) |-> Annotation(ps[j], "pub-id_pmid")]

C20_RecordFromItsOwnElement ==
    LET docs == ClosedDocs
        open == OpenPassages(Consumed, <<>>)
    IN /\ pc = "parse" => (current_doc # <<>> <=> InDocument(Consumed))
       /\ (pc = "parse" /\ current_doc # <<>>) =>
            current_doc[1] = [pmid |-> IdOf(open),
                              title |-> TitleOf(open),
                              abstract_parts |-> AbstractPartsOf(open),
                              references |-> ReferencesOf(open)]
       /\ OriginIn(docs)
       /\ \A k \in Records :
            documents[k] = [pmid |-> IdOf(docs[origin[k]]),
                            title |-> TitleOf(docs[origin[k]]),
                            abstract |-> Join(AbstractPartsOf(docs[origin[k]]), <<" ">>),
                            references |-> ReferencesOf(docs[origin[k]])]

\* a record without title and without references whose document element
\* follows one that has a title or cites an identifier
C20_Witness ==
    LET docs == ClosedDocs
    IN /\ OriginIn(docs)
       /\ \E k \in Records :
            /\ origin[k] > 1
            /\ documents[k].title = <<>>
            /\ documents[k].references = <<>>
            /\ \/ TitledPassages(docs[origin[k] - 1]) # <<>>
               \/ RefPassages(docs[origin[k] - 1]) # <<>>

=============================================================================
